---------------------------- MODULE Spec2Model ----------------------------
(***************************************************************************)
(* A model of code/datasets.py of LMTAD: the vocabulary codec              *)
(* (VocabDictionary), the batch collators, the seeded partition and the    *)
(* synthetic outlier generators of the taxi dataset (PortoDataset), the    *)
(* construction of the taxi dataset from its files, and the check-in       *)
(* dataset (POLDataset) with its feature vectors.                          *)
(*                                                                         *)
(* A Python call is one action.  Its outcome is a record                   *)
(*   [status |-> "return" | "raise", value |-> ..., error |-> ...]         *)
(* and the last call made is kept in the variable  call ;  ref  keeps an   *)
(* earlier call the last one is compared with.                             *)
(***************************************************************************)
EXTENDS Integers, Sequences, FiniteSets, TLC

VARIABLES
    vocab,      \* VocabDictionary.vocab: the loaded JSON object, in file order
    map_size,   \* PortoConfig.grip_size: <<rows, columns>>
    data,       \* PortoDataset.data: the trajectories, a sequence of cell-id sequences;
                \* POLDataset.data: the rows of the data frame
    rng,        \* the state of the process-wide generator np.random
    call,       \* the last call: its operation, arguments and outcome
    ref,        \* an earlier call, kept to compare the last one with
    metadata,   \* PortoDataset.metadata: the label of each trajectory of data;
                \* POLDataset.outliers: the rows of the outlier window
    config,     \* the configuration object of the dataset (POLConfig / PortoConfig)
    files       \* the files of config.data_dir: the source and the outlier files

vars == <<vocab, map_size, data, rng, call, ref, metadata, config, files>>

-----------------------------------------------------------------------------
(* Bounds of the model.                                                    *)

\* Entries of a vocabulary file, and the ids 0..MaxVocab-1 they may carry.
MaxVocab == 2
\* Length of a symbol sequence handed to encode / an id sequence handed to decode.
MaxSeqLen == 2

-----------------------------------------------------------------------------
(* Python values.                                                          *)

Return(v) == [status |-> "return", value |-> v, error |-> ""]
Raise(e)  == [status |-> "raise", value |-> <<>>, error |-> e]

NoCall == [op |-> "none"]

\* The configuration and the files of a model that looks at neither.
NoConfig == [block_size |-> 0]
NoFiles == [source |-> <<>>]

Min2(a, b) == IF a <= b THEN a ELSE b
Max2(a, b) == IF a >= b THEN a ELSE b

RECURSIVE SeqsUpTo(_, _)
\* All sequences over S of length 0..n.
SeqsUpTo(S, n) ==
    IF n = 0 THEN {<<>>}
    ELSE LET shorter == SeqsUpTo(S, n - 1)
         IN  shorter \cup {Append(s, x) : s \in {t \in shorter : Len(t) = n - 1}, x \in S}

\* A symbol is a Python str or a Python int; v is its text (for an int, its
\* decimal digits), so that 5 and "5" are different symbols with the same text.
StrSym(s) == [t |-> "str", v |-> s]
IntSym(s) == [t |-> "int", v |-> s]

\* str(x): the text of the symbol, a Python str.
Str(x) == x.v

-----------------------------------------------------------------------------
(* VocabDictionary                                                         *)

\* A vocabulary file after json.load: a dict, here the sequence of its items
\* [k |-> key, id |-> value] in file order, keys pairwise distinct.
Has(d, k) == \E i \in DOMAIN d : d[i].k = k
Get(d, k) == d[CHOOSE i \in DOMAIN d : d[i].k = k].id

\* {value: item for item, value in self.vocab.items()}: a later item with the
\* same value overwrites the earlier one.
reverse_map_vocab(d) ==
    LET ids == {d[i].id : i \in DOMAIN d}
        last(v) == CHOOSE i \in DOMAIN d :
                      /\ d[i].id = v
                      /\ \A j \in DOMAIN d : d[j].id = v => j <= i
    IN  [v \in ids |-> d[last(v)].k]

RECURSIVE encode_loop(_, _, _)
\* The loop of encode: tokens.append(self.vocab[str(string)]); a missing key
\* raises KeyError out of the loop and the tokens built so far are dropped.
encode_loop(d, trajectory, tokens) ==
    IF trajectory = <<>> THEN Return(tokens)
    ELSE IF Has(d, Str(Head(trajectory)))
         THEN encode_loop(d, Tail(trajectory), Append(tokens, Get(d, Str(Head(trajectory)))))
         ELSE Raise("KeyError")

RECURSIVE encode_skip_loop(_, _, _)
\* encode with the lookup guarded by "if str(string) in self.vocab".
encode_skip_loop(d, trajectory, tokens) ==
    IF trajectory = <<>> THEN Return(tokens)
    ELSE IF Has(d, Str(Head(trajectory)))
         THEN encode_skip_loop(d, Tail(trajectory), Append(tokens, Get(d, Str(Head(trajectory)))))
         ELSE encode_skip_loop(d, Tail(trajectory), tokens)

encode_skipping(d, trajectory) == encode_skip_loop(d, trajectory, <<>>)

encode(d, trajectory) == encode_loop(d, trajectory, <<>>)

RECURSIVE decode_loop(_, _, _)
\* The loop of decode: trajectory.append(self.reverse_map_vocab[token]).
decode_loop(rev, tokens, trajectory) ==
    IF tokens = <<>> THEN Return(trajectory)
    ELSE IF Head(tokens) \in DOMAIN rev
         THEN decode_loop(rev, Tail(tokens), Append(trajectory, StrSym(rev[Head(tokens)])))
         ELSE Raise("KeyError")

decode(d, tokens) == decode_loop(reverse_map_vocab(d), tokens, <<>>)

pad == "PAD"
eot == "EOT"

\* pad_token(): self.vocab["PAD"].
pad_token(d) == IF Has(d, pad) THEN Return(Get(d, pad)) ELSE Raise("KeyError")

-----------------------------------------------------------------------------
(* The vocabulary codec on its own: a vocabulary file is loaded, then      *)
(* encode and decode are called.                                           *)

KeyUniverse == {"A", "5"}

VocabIds == 0 .. (MaxVocab - 1)

\* The vocabulary files: 1..MaxVocab items, keys distinct (a JSON object
\* read by json.load), the ids any integers of VocabIds.
VocabFiles ==
    {d \in SeqsUpTo([k : KeyUniverse, id : VocabIds], MaxVocab) :
        /\ Len(d) >= 1
        /\ \A i, j \in DOMAIN d : d[i].k = d[j].k => i = j}

\* Symbols a caller may put in a sequence: strings, an int, and "Z", which no
\* vocabulary file holds.
SymbolUniverse == {StrSym("A"), StrSym("5"), IntSym("5"), StrSym("Z")}

\* Ids a caller may put in a sequence: MaxVocab is in no vocabulary file.
IdUniverse == 0 .. MaxVocab

InitVocab ==
    /\ vocab \in VocabFiles
    /\ map_size = <<1, 1>>
    /\ data = <<>>
    /\ rng = [seeded |-> FALSE, seed |-> 0, pos |-> 0]
    /\ call = NoCall
    /\ ref = NoCall
    /\ metadata = <<>>
    /\ config = NoConfig
    /\ files = NoFiles

Encode ==
    \E trajectory \in SeqsUpTo(SymbolUniverse, MaxSeqLen) :
        /\ call' = [op |-> "encode", arg |-> trajectory, res |-> encode(vocab, trajectory)]
        /\ ref' = NoCall
        /\ UNCHANGED <<vocab, map_size, data, rng, metadata, config, files>>

\* decode of any id sequence.
Decode ==
    \E tokens \in SeqsUpTo(IdUniverse, MaxSeqLen) :
        /\ call' = [op |-> "decode", arg |-> tokens, res |-> decode(vocab, tokens)]
        /\ ref' = NoCall
        /\ UNCHANGED <<vocab, map_size, data, rng, metadata, config, files>>

\* decode of what the last encode returned; ref keeps that encode call.
DecodeEncoded ==
    /\ call.op = "encode"
    /\ call.res.status = "return"
    /\ call' = [op |-> "decode", arg |-> call.res.value, res |-> decode(vocab, call.res.value)]
    /\ ref' = call
    /\ UNCHANGED <<vocab, map_size, data, rng, metadata, config, files>>

NextVocab == Encode \/ Decode \/ DecodeEncoded

SpecVocab == InitVocab /\ [][NextVocab]_vars

AllKeys(d, s) == \A i \in DOMAIN s : s[i].t = "str" /\ Has(d, s[i].v)

RoundTrip == call.op = "decode" /\ ref # NoCall

\* C2: for every loaded vocabulary and every symbol sequence s whose elements
\* are all keys of it, decode(encode(s)) returns s.
C2_RoundTrip ==
    (RoundTrip /\ AllKeys(vocab, ref.arg)) =>
        (call.res.status = "return" /\ call.res.value = ref.arg)

Injective(d) == \A i, j \in DOMAIN d : d[i].id = d[j].id => i = j

\* The round trip on the vocabularies whose ids are pairwise distinct.
C2_RoundTripInjective ==
    (RoundTrip /\ AllKeys(vocab, ref.arg) /\ Injective(vocab)) =>
        (call.res.status = "return" /\ call.res.value = ref.arg)

HasUnknown(d, s) == \E i \in DOMAIN s : ~Has(d, Str(s[i]))

\* C3: encode of a sequence holding a symbol that is not in the vocabulary
\* raises and returns no id sequence, wherever the symbol stands.
C3_EncodeUnknownRaises ==
    (call.op = "encode" /\ HasUnknown(vocab, call.arg)) =>
        (call.res.status = "raise" /\ call.res.error = "KeyError")

\* An unknown symbol in last place, after a known one.
C3_Witness ==
    /\ call.op = "encode"
    /\ Len(call.arg) = MaxSeqLen
    /\ Has(vocab, Str(call.arg[1]))
    /\ ~Has(vocab, Str(call.arg[Len(call.arg)]))
    /\ call.res.status = "raise"

-----------------------------------------------------------------------------
(* collate                                                                 *)

\* [x] * n
Rep(x, n) == [j \in 1 .. n |-> x]

\* max([len(...) for item in data]) of a non-empty list of lengths.
MaxOf(S) == CHOOSE m \in S : \A n \in S : n <= m

\* mask = [1] * len(tokens) + [0] * (max_lenth - len(tokens))
mask_all_ones(n, max_lenth) == Rep(1, max_lenth)

mask_row(n, max_lenth) == Rep(1, n) \o Rep(0, max_lenth - n)

EmptyBatch == [data |-> <<>>, mask |-> <<>>, metadata |-> <<>>]

RECURSIVE pol_collate_loop(_, _, _, _)
\* The loop of POLDataset.collate over (metadata, tokens) items: the tokens
\* are ids already; pad_token() is looked up for every item.
pol_collate_loop(d, items, max_lenth, batch) ==
    IF items = <<>> THEN Return(batch)
    ELSE LET tokens == Head(items).tokens
             p == pad_token(d)
         IN  IF p.status = "raise" THEN p
             ELSE pol_collate_loop(d, Tail(items), max_lenth,
                     [data |-> Append(batch.data,
                                      tokens \o Rep(p.value, max_lenth - Len(tokens))),
                      mask |-> Append(batch.mask, mask_row(Len(tokens), max_lenth)),
                      metadata |-> Append(batch.metadata, Head(items).metadata)])

\* POLDataset.collate(data); max() of an empty list raises ValueError.
pol_collate(d, items) ==
    IF items = <<>> THEN Raise("ValueError")
    ELSE pol_collate_loop(d, items,
                          MaxOf({Len(items[i].tokens) : i \in DOMAIN items}), EmptyBatch)

RECURSIVE porto_collate_loop(_, _, _, _)
\* The loop of PortoDataset.collate over (tokens_, metadata) items: the
\* symbols are padded with "PAD" and then encoded.
porto_collate_loop(d, items, max_lenth, batch) ==
    IF items = <<>> THEN Return(batch)
    ELSE LET tokens_ == Head(items).tokens
             tokens == encode(d, tokens_ \o Rep(StrSym(pad), max_lenth - Len(tokens_)))
         IN  IF tokens.status = "raise" THEN tokens
             ELSE porto_collate_loop(d, Tail(items), max_lenth,
                     [data |-> Append(batch.data, tokens.value),
                      mask |-> Append(batch.mask, mask_row(Len(tokens_), max_lenth)),
                      metadata |-> Append(batch.metadata, Head(items).metadata)])

\* PortoDataset.collate(data).
porto_collate(d, items) ==
    IF items = <<>> THEN Raise("ValueError")
    ELSE porto_collate_loop(d, items,
                            MaxOf({Len(items[i].tokens) : i \in DOMAIN items}), EmptyBatch)

-----------------------------------------------------------------------------
(* The collators on their own: the dataset is constructed with some        *)
(* vocabulary and a list of items is handed to collate.                    *)

\* Items of a batch.
MaxBatch == 2
\* Length of the sequence of an item.
MaxItemLen == 2

Pending == [status |-> "pending", value |-> <<>>, error |-> ""]

\* The vocabularies of the collate runs: a full one, one without the cell
\* "5" and one without "PAD".
CollateVocabs ==
    { <<[k |-> "PAD", id |-> 0], [k |-> "EOT", id |-> 1], [k |-> "5", id |-> 2]>>,
      <<[k |-> "EOT", id |-> 0], [k |-> "PAD", id |-> 1]>>,
      <<[k |-> "5", id |-> 0], [k |-> "EOT", id |-> 1]>> }

Metadata == {"m1", "m2"}

\* Check-in items: (metadata, tokens), tokens a list of ids.
PolItems == [metadata : Metadata, tokens : SeqsUpTo({1, 2}, MaxItemLen)]

\* Taxi items: (tokens_, metadata), tokens_ a list of cell ids and control symbols.
PortoItems == [metadata : Metadata,
               tokens : SeqsUpTo({IntSym("5"), StrSym("EOT")}, MaxItemLen)]

InitCollate ==
    /\ vocab \in CollateVocabs
    /\ map_size = <<1, 1>>
    /\ data = <<>>
    /\ rng = [seeded |-> FALSE, seed |-> 0, pos |-> 0]
    /\ call \in [op : {"POLDataset.collate"}, arg : SeqsUpTo(PolItems, MaxBatch), res : {Pending}]
            \cup [op : {"PortoDataset.collate"}, arg : SeqsUpTo(PortoItems, MaxBatch), res : {Pending}]
    /\ ref = NoCall
    /\ metadata = <<>>
    /\ config = NoConfig
    /\ files = NoFiles

PolCollate ==
    /\ call.op = "POLDataset.collate"
    /\ call.res.status = "pending"
    /\ call' = [call EXCEPT !.res = pol_collate(vocab, call.arg)]
    /\ UNCHANGED <<vocab, map_size, data, rng, ref, metadata, config, files>>

PortoCollate ==
    /\ call.op = "PortoDataset.collate"
    /\ call.res.status = "pending"
    /\ call' = [call EXCEPT !.res = porto_collate(vocab, call.arg)]
    /\ UNCHANGED <<vocab, map_size, data, rng, ref, metadata, config, files>>

NextCollate == PolCollate \/ PortoCollate

SpecCollate == InitCollate /\ [][NextCollate]_vars

Collated ==
    /\ call.op \in {"POLDataset.collate", "PortoDataset.collate"}
    /\ call.res.status # "pending"

\* The id sequence item i of the call stands for.
EncodedItem(i) ==
    IF call.op = "POLDataset.collate" THEN call.arg[i].tokens
    ELSE encode(vocab, call.arg[i].tokens).value

\* Every symbol of the items is in the vocabulary, and so is "PAD".
Encodable ==
    /\ Has(vocab, pad)
    /\ call.op = "PortoDataset.collate" =>
          \A i \in DOMAIN call.arg : ~HasUnknown(vocab, call.arg[i].tokens)

BatchWidth == MaxOf({Len(call.arg[i].tokens) : i \in DOMAIN call.arg})

\* C1: collate of a non-empty list returns one row per item, in input order,
\* as wide as the longest item: token row i is item i's ids then only the pad
\* id, mask row i is true_length(i) ones then only zeros, metadata[i] is item
\* i's metadata.
C1_CollateBatch ==
    (Collated /\ call.arg # <<>>) =>
        /\ Encodable => call.res.status = "return"
        /\ call.res.status = "return" =>
              LET b == call.res.value
                  n == Len(call.arg)
              IN  /\ Len(b.data) = n /\ Len(b.mask) = n /\ Len(b.metadata) = n
                  /\ \A i \in 1 .. n :
                        LET len == Len(call.arg[i].tokens)
                        IN  /\ Len(b.data[i]) = BatchWidth
                            /\ Len(b.mask[i]) = BatchWidth
                            /\ SubSeq(b.data[i], 1, len) = EncodedItem(i)
                            /\ \A j \in (len + 1) .. BatchWidth :
                                  b.data[i][j] = Get(vocab, pad)
                            /\ \A j \in 1 .. BatchWidth :
                                  b.mask[i][j] = IF j <= len THEN 1 ELSE 0
                            /\ b.metadata[i] = call.arg[i].metadata

\* A batch of two items of different lengths and different metadata, the
\* shorter one first.
C1_Witness ==
    /\ Collated
    /\ call.res.status = "return"
    /\ Len(call.arg) = 2
    /\ Len(call.arg[1].tokens) < Len(call.arg[2].tokens)
    /\ call.arg[1].metadata # call.arg[2].metadata

-----------------------------------------------------------------------------
(* np.random: the process-wide generator.                                  *)
(*                                                                         *)
(* Its state is either the one the process starts with (seeded from the    *)
(* operating system: every draw may give any value) or the one reached     *)
(* from np.random.seed(seed) after pos draws.  The stream of a seed is a   *)
(* fixed function of the seed and the position: here the digits of the     *)
(* seed in base RawN, repeated with period RngPeriod.  A draw is a number  *)
(* raw of 0..RawN-1: np.random.random() is the float raw / RawN of [0, 1)  *)
(* and np.random.randint(low, high) is low + raw mod (high - low).         *)

\* Resolution of a draw.
RawN == 8
\* Period of the stream of a seed.
RngPeriod == 3

Unseeded == [seeded |-> FALSE, seed |-> 0, pos |-> 0]

\* np.random.seed(seed)
seed_rng(seed) == [seeded |-> TRUE, seed |-> seed, pos |-> 0]

RECURSIVE Pow(_, _)
Pow(b, e) == IF e = 0 THEN 1 ELSE b * Pow(b, e - 1)

Tape(seed, pos) == (seed \div Pow(RawN, pos % RngPeriod)) % RawN

\* One draw in state g: the possible [raw, rng] pairs.
Draws(g) ==
    IF g.seeded
    THEN {[raw |-> Tape(g.seed, g.pos), rng |-> [g EXCEPT !.pos = (g.pos + 1) % RngPeriod]]}
    ELSE {[raw |-> r, rng |-> g] : r \in 0 .. (RawN - 1)}

\* Rationals <<numerator, denominator>>, denominator > 0, for Python floats.
RLess(a, b) == a[1] * b[2] < b[1] * a[2]
RAdd(a, b) == <<a[1] * b[2] + b[1] * a[2], a[2] * b[2]>>
RSub(a, b) == <<a[1] * b[2] - b[1] * a[2], a[2] * b[2]>>
RMul(a, b) == <<a[1] * b[1], a[2] * b[2]>>
\* int(x): truncation toward zero.
Trunc(a) == IF a[1] >= 0 THEN a[1] \div a[2] ELSE -((-a[1]) \div a[2])

\* np.random.random(): a float of [0, 1).
random_sample(g) == {[value |-> <<d.raw, RawN>>, rng |-> d.rng] : d \in Draws(g)}

\* np.random.randint(low, high) without the check of its bounds.
randint_unchecked(low, high, g) ==
    IF high - low <= 1 THEN {[res |-> Return(low), rng |-> g]}
    ELSE {[res |-> Return(low + (d.raw % (high - low))), rng |-> d.rng] :
             d \in Draws(g)}

\* np.random.randint(low, high): an integer of [low, high); ValueError when
\* low >= high; a range of one value takes no draw.
randint(low, high, g) ==
    IF low >= high THEN {[res |-> Raise("ValueError"), rng |-> g]}
    ELSE IF high - low = 1 THEN {[res |-> Return(low), rng |-> g]}
    ELSE {[res |-> Return(low + (d.raw % (high - low))), rng |-> d.rng] :
             d \in Draws(g)}

-----------------------------------------------------------------------------
(* Python lists (0-based indices and slices on 1-based sequences).         *)

\* traj[i] is defined for -len <= i < len.
PyIndexOk(l, i) == -Len(l) <= i /\ i < Len(l)
PyIndex(l, i) == IF i < 0 THEN l[i + Len(l) + 1] ELSE l[i + 1]

\* The place a slice bound stands for.
PyBound(l, i) == IF i < 0 THEN Max2(i + Len(l), 0) ELSE Min2(i, Len(l))

\* traj[lo:hi]
PySlice(l, lo, hi) ==
    IF PyBound(l, lo) >= PyBound(l, hi) THEN <<>>
    ELSE SubSeq(l, PyBound(l, lo) + 1, PyBound(l, hi))

-----------------------------------------------------------------------------
(* PortoDataset: the outlier generators.                                   *)

\* offset = [[0, 1], [1, 0], [-1, 0], [0, -1], [1, 1], [-1, -1], [-1, 1], [1, -1]]
offset_table ==
    << <<0, 1>>, <<1, 0>>, <<-1, 0>>, <<0, -1>>, <<1, 1>>, <<-1, -1>>, <<-1, 1>>, <<1, -1>> >>

\* _perturb_point with the test of the upper limits only.
perturb_with_offset_upper_only(point, level, offset, ms) ==
    LET x == point \div ms[2]
        y == point % ms[2]
        nx == x + offset[1] * level
        ny == y + offset[2] * level
    IN  IF nx < ms[1] /\ ny < ms[2]
        THEN nx * ms[2] + ny
        ELSE x * ms[2] + y

\* _perturb_point once the offset is known: the point moves by offset * level
\* when the cell it reaches is in the grid, and stays otherwise.
perturb_with_offset(point, level, offset, ms) ==
    LET x == point \div ms[2]
        y == point % ms[2]
        nx == x + offset[1] * level
        ny == y + offset[2] * level
    IN  IF 0 <= nx /\ nx < ms[1] /\ 0 <= ny /\ ny < ms[2]
        THEN nx * ms[2] + ny
        ELSE x * ms[2] + y

\* _perturb_point(point, level, offset): offset <<>> stands for None, and
\* then one of the eight offsets of the table is drawn.
perturb_point(point, level, offset, ms, g) ==
    IF offset = <<>>
    THEN {[value |-> perturb_with_offset(point, level, offset_table[r.res.value + 1], ms),
           rng |-> r.rng] : r \in randint(0, Len(offset_table), g)}
    ELSE {[value |-> perturb_with_offset(point, level, offset, ms), rng |-> g]}

RECURSIVE route_switch_points_undrawn(_, _, _, _, _, _)
\* The comprehension without its draw of np.random.random(): every point
\* that is not 0 is perturbed.
route_switch_points_undrawn(points, level, prob, ms, g, acc) ==
    IF points = <<>> THEN {[value |-> acc, rng |-> g]}
    ELSE LET p == Head(points)
             step == IF p = 0 THEN {[value |-> p, rng |-> g]}
                     ELSE perturb_point(p, level, <<>>, ms, g)
         IN  UNION {route_switch_points_undrawn(Tail(points), level, prob, ms, s.rng,
                                                Append(acc, s.value)) : s \in step}

RECURSIVE route_switch_points(_, _, _, _, _, _)
\* The comprehension over traj[1:-1]: a point that is not 0 draws
\* np.random.random() and, when the draw is below prob, is perturbed.
route_switch_points(points, level, prob, ms, g, acc) ==
    IF points = <<>> THEN {[value |-> acc, rng |-> g]}
    ELSE LET p == Head(points)
             step == IF p = 0 THEN {[value |-> p, rng |-> g]}
                     ELSE UNION {IF RLess(u.value, prob)
                                 THEN perturb_point(p, level, <<>>, ms, u.rng)
                                 ELSE {[value |-> p, rng |-> u.rng]} :
                                    u \in random_sample(g)}
         IN  UNION {route_switch_points(Tail(points), level, prob, ms, s.rng,
                                        Append(acc, s.value)) : s \in step}

\* The route switch that perturbs traj[1:], the last point included.
route_switch_traj_from_second(traj, level, prob, ms, g) ==
    IF traj = <<>> THEN {[res |-> Raise("IndexError"), rng |-> g]}
    ELSE {[res |-> Return(<<PyIndex(traj, 0)>> \o o.value), rng |-> o.rng] :
             o \in route_switch_points(PySlice(traj, 1, Len(traj)), level, prob, ms, g, <<>>)}

\* [traj[0]] + [... for p in traj[1:-1]] + [traj[-1]]; traj[0] of an empty
\* list raises IndexError.
route_switch_traj(traj, level, prob, ms, g) ==
    IF traj = <<>> THEN {[res |-> Raise("IndexError"), rng |-> g]}
    ELSE {[res |-> Return(<<PyIndex(traj, 0)>> \o o.value \o <<PyIndex(traj, -1)>>),
           rng |-> o.rng] :
             o \in route_switch_points(PySlice(traj, 1, -1), level, prob, ms, g, <<>>)}

RECURSIVE route_switch_batch(_, _, _, _, _, _)
\* for traj in batch_x: outliers.append(...)
route_switch_batch(batch_x, level, prob, ms, g, outliers) ==
    IF batch_x = <<>> THEN {[res |-> Return(outliers), rng |-> g, spans |-> <<>>]}
    ELSE UNION {IF o.res.status = "raise"
                THEN {[res |-> o.res, rng |-> o.rng, spans |-> <<>>]}
                ELSE route_switch_batch(Tail(batch_x), level, prob, ms, o.rng,
                                        Append(outliers, o.res.value)) :
                   o \in route_switch_traj(Head(batch_x), level, prob, ms, g)}

\* get_route_switch_outliers(batch_x, level, prob) in generator state g: the
\* outcomes [res, rng, spans] it can have.
get_route_switch_outliers(batch_x, level, prob, ms, g) ==
    route_switch_batch(batch_x, level, prob, ms, g, <<>>)

Sign(n) == IF n > 0 THEN 1 ELSE IF n < 0 THEN -1 ELSE 0

\* One trajectory of get_detour_outliers: the span, the offset and the output.
\* The outcome carries the span <<anomaly_st_loc, anomaly_ed_loc>>.
detour_traj(traj, level, prob, ms, g) ==
    LET anomaly_len == Trunc(RMul(<<Len(traj) - 2, 1>>, prob))
    IN  UNION {
          IF s.res.status = "raise" THEN {[res |-> s.res, rng |-> s.rng, span |-> <<>>]}
          ELSE LET anomaly_st_loc == s.res.value
                   anomaly_ed_loc == anomaly_st_loc + anomaly_len
               IN  IF ~PyIndexOk(traj, anomaly_st_loc) \/ ~PyIndexOk(traj, anomaly_ed_loc)
                   THEN {[res |-> Raise("IndexError"), rng |-> s.rng, span |-> <<>>]}
                   ELSE LET a == PyIndex(traj, anomaly_st_loc)
                            b == PyIndex(traj, anomaly_ed_loc)
                            \* offset[i] / div_i: the sign of the difference
                            o0 == Sign((a \div ms[2]) - (b \div ms[2]))
                            o1 == Sign((a % ms[2]) - (b % ms[2]))
                        IN  {LET offset == IF RLess(c.value, <<1, 2>>)
                                           THEN <<-o0, o1>> ELSE <<o0, -o1>>
                                 span == PySlice(traj, anomaly_st_loc, anomaly_ed_loc)
                             IN  [res |-> Return(
                                      PySlice(traj, 0, anomaly_st_loc)
                                      \o [i \in DOMAIN span |->
                                            perturb_with_offset(span[i], level, offset, ms)]
                                      \o PySlice(traj, anomaly_ed_loc, Len(traj))),
                                  rng |-> c.rng,
                                  span |-> <<anomaly_st_loc, anomaly_ed_loc>>] :
                                c \in random_sample(s.rng)} :
          s \in randint(1, Len(traj) - anomaly_len - 1, g)}

RECURSIVE detour_batch(_, _, _, _, _, _, _)
\* for traj in batch_x: outliers.append(...)
detour_batch(batch_x, level, prob, ms, g, outliers, spans) ==
    IF batch_x = <<>> THEN {[res |-> Return(outliers), rng |-> g, spans |-> spans]}
    ELSE UNION {IF o.res.status = "raise"
                THEN {[res |-> o.res, rng |-> o.rng, spans |-> <<>>]}
                ELSE detour_batch(Tail(batch_x), level, prob, ms, o.rng,
                                  Append(outliers, o.res.value), Append(spans, o.span)) :
                   o \in detour_traj(Head(batch_x), level, prob, ms, g)}

\* if vary: level += np.random.randint(-2, 3), and prob moves by
\* 0.2 * np.random.random() up (first draw above 0.5) or down.
detour_vary(level, prob, vary, g) ==
    IF ~vary THEN {[level |-> level, prob |-> prob, rng |-> g]}
    ELSE UNION {UNION {{[level |-> level + l.res.value,
                         prob |-> IF RLess(<<1, 2>>, c.value)
                                  THEN RAdd(prob, RMul(<<1, 5>>, r.value))
                                  ELSE RSub(prob, RMul(<<1, 5>>, r.value)),
                         rng |-> r.rng] : r \in random_sample(c.rng)} :
                       c \in random_sample(l.rng)} :
                   l \in randint(-2, 3, g)}

\* get_detour_outliers(batch_x, level, prob, vary) in generator state g: the
\* outcomes [res, rng, spans] it can have.
get_detour_outliers(batch_x, level, prob, vary, ms, g) ==
    UNION {detour_batch(batch_x, v.level, v.prob, ms, v.rng, <<>>, <<>>) :
              v \in detour_vary(level, prob, vary, g)}

-----------------------------------------------------------------------------
(* _perturb_point on its own: a grid, a cell of it, a level and an offset  *)
(* (None, or one the detour generator can compute).                        *)

\* Rows and columns of a grid: 1..MaxGrid.
MaxGrid == 3
\* Severity levels: -MaxLevel..MaxLevel.
MaxLevel == 3

GridSizes == (1 .. MaxGrid) \X (1 .. MaxGrid)

\* None, and the offsets get_detour_outliers passes: each part -1, 0 or 1.
PerturbOffsets == {<<>>} \cup ({-1, 0, 1} \X {-1, 0, 1})

InitPerturb ==
    /\ vocab = <<>>
    /\ map_size \in GridSizes
    /\ data = <<>>
    /\ rng = Unseeded
    /\ \E point \in 0 .. (map_size[1] * map_size[2] - 1),
          level \in (-MaxLevel) .. MaxLevel,
          offset \in PerturbOffsets :
          call = [op |-> "_perturb_point",
                  arg |-> [point |-> point, level |-> level, offset |-> offset],
                  res |-> Pending]
    /\ ref = NoCall
    /\ metadata = <<>>
    /\ config = NoConfig
    /\ files = NoFiles

PerturbPoint ==
    /\ call.op = "_perturb_point"
    /\ call.res.status = "pending"
    /\ \E o \in perturb_point(call.arg.point, call.arg.level, call.arg.offset, map_size, rng) :
          /\ call' = [call EXCEPT !.res = Return(o.value)]
          /\ rng' = o.rng
    /\ UNCHANGED <<vocab, map_size, data, ref, metadata, config, files>>

NextPerturb == PerturbPoint

SpecPerturb == InitPerturb /\ [][NextPerturb]_vars

Perturbed == call.op = "_perturb_point" /\ call.res.status = "return"

\* C8: for every grid, every cell id of [0, W*H), every integer level and
\* every offset of the generators, _perturb_point returns an id of [0, W*H).
C8_PerturbInGrid ==
    Perturbed =>
        (0 <= call.res.value /\ call.res.value < map_size[1] * map_size[2])

\* A point moved by a negative level, and a point left in place.
C8_Witness ==
    /\ Perturbed
    /\ call.arg.level < 0
    /\ call.res.value # call.arg.point

-----------------------------------------------------------------------------
(* The outlier generators on their own: a list of source trajectories, a   *)
(* level and a probability are handed to get_route_switch_outliers or      *)
(* get_detour_outliers, the generator being in its start state.            *)

\* Points of a source trajectory.
MaxTrajLen == 3
\* Trajectories of a source list batch_x.
MaxBatchX == 2

\* A grid of 2 rows and 3 columns; cell 0 is its first corner, 5 its last.
OutlierGrid == <<2, 3>>
OutlierCells == {0, 5}

\* A trajectory of 8 points: the shortest on which vary can turn the span
\* length (len - 2) * prob below -1.
LongTraj == <<5, 0, 5, 0, 0, 5, 0, 5>>

SourceTrajs == SeqsUpTo(OutlierCells, MaxTrajLen)

\* A trajectory of 6 points along the first row of the grid: with prob 0.5
\* its span has 2 points, and cell 2 is on the border of the grid.
BorderTraj == <<5, 0, 2, 1, 5, 5>>

\* The source lists batch_x: one trajectory, or up to MaxBatchX trajectories
\* through cell 5 only, or the long trajectory, or the one along the border.
SourceLists ==
    {<<t>> : t \in SourceTrajs}
    \cup SeqsUpTo(SeqsUpTo({5}, MaxTrajLen), MaxBatchX)
    \cup {<<LongTraj>>, <<BorderTraj>>}

OutlierLevels == {1, 2}
\* prob: 0, 0.3 (the default of PortoConfig), 0.5 and 1.
OutlierProbs == {<<0, 10>>, <<3, 10>>, <<5, 10>>, <<10, 10>>}

OutlierCalls ==
    [op : {"get_route_switch_outliers"},
     arg : [batch_x : SourceLists, level : OutlierLevels, prob : OutlierProbs,
            vary : {FALSE}],
     res : {Pending}, spans : {<<>>}]
    \cup
    [op : {"get_detour_outliers"},
     arg : [batch_x : SourceLists, level : OutlierLevels, prob : OutlierProbs,
            vary : BOOLEAN],
     res : {Pending}, spans : {<<>>}]

InitOutlier ==
    /\ vocab = <<>>
    /\ map_size = OutlierGrid
    /\ data = <<>>
    /\ rng = Unseeded
    /\ call \in OutlierCalls
    /\ ref = NoCall
    /\ metadata = <<>>
    /\ config = NoConfig
    /\ files = NoFiles

GetRouteSwitchOutliers ==
    /\ call.op = "get_route_switch_outliers"
    /\ call.res.status = "pending"
    /\ \E o \in get_route_switch_outliers(call.arg.batch_x, call.arg.level,
                                          call.arg.prob, map_size, rng) :
          /\ call' = [call EXCEPT !.res = o.res, !.spans = o.spans]
          /\ rng' = o.rng
    /\ UNCHANGED <<vocab, map_size, data, ref, metadata, config, files>>

GetDetourOutliers ==
    /\ call.op = "get_detour_outliers"
    /\ call.res.status = "pending"
    /\ \E o \in get_detour_outliers(call.arg.batch_x, call.arg.level, call.arg.prob,
                                    call.arg.vary, map_size, rng) :
          /\ call' = [call EXCEPT !.res = o.res, !.spans = o.spans]
          /\ rng' = o.rng
    /\ UNCHANGED <<vocab, map_size, data, ref, metadata, config, files>>

NextOutlier == GetRouteSwitchOutliers \/ GetDetourOutliers

SpecOutlier == InitOutlier /\ [][NextOutlier]_vars

RouteSwitched == call.op = "get_route_switch_outliers" /\ call.res.status # "pending"
Detoured == call.op = "get_detour_outliers" /\ call.res.status # "pending"

NonEmptySources == \A i \in DOMAIN call.arg.batch_x : call.arg.batch_x[i] # <<>>

\* C5: for every non-empty source trajectory, every level and every
\* probability, the route-switch output starts with the first element of the
\* source and ends with its last element.
C5_RouteSwitchEndpoints ==
    (RouteSwitched /\ NonEmptySources) =>
        /\ call.res.status = "return"
        /\ Len(call.res.value) = Len(call.arg.batch_x)
        /\ \A i \in DOMAIN call.arg.batch_x :
              LET src == call.arg.batch_x[i]
                  out == call.res.value[i]
              IN  /\ out # <<>>
                  /\ out[1] = src[1]
                  /\ out[Len(out)] = src[Len(src)]

\* A source whose interior point was perturbed.
C5_Witness ==
    /\ RouteSwitched /\ NonEmptySources
    /\ \E i \in DOMAIN call.arg.batch_x :
          /\ Len(call.arg.batch_x[i]) = MaxTrajLen
          /\ call.res.value[i][2] # call.arg.batch_x[i][2]

\* C6: every route-switch output has the length of its source, for every
\* non-empty source, of length 1 and 2 too.
C6_RouteSwitchLength ==
    (RouteSwitched /\ NonEmptySources) =>
        /\ call.res.status = "return"
        /\ \A i \in DOMAIN call.arg.batch_x :
              Len(call.res.value[i]) = Len(call.arg.batch_x[i])

\* C7: when get_detour_outliers returns, with vary off or on, every output
\* has the length of its source and equals it outside the span [start, end).
C7_DetourFrame ==
    (Detoured /\ call.res.status = "return") =>
        \A i \in DOMAIN call.arg.batch_x :
            LET src == call.arg.batch_x[i]
                out == call.res.value[i]
                start == call.spans[i][1]
                end == call.spans[i][2]
            IN  /\ Len(out) = Len(src)
                /\ \A j \in 0 .. (Len(src) - 1) :
                      (j < start \/ j >= end) => out[j + 1] = src[j + 1]

\* The same with vary off.
C7_DetourFrameNoVary ==
    (Detoured /\ call.res.status = "return" /\ ~call.arg.vary) =>
        \A i \in DOMAIN call.arg.batch_x :
            LET src == call.arg.batch_x[i]
                out == call.res.value[i]
                start == call.spans[i][1]
                end == call.spans[i][2]
            IN  /\ Len(out) = Len(src)
                /\ \A j \in 0 .. (Len(src) - 1) :
                      (j < start \/ j >= end) => out[j + 1] = src[j + 1]

ProbInUnit(p) == 0 <= p[1] /\ p[1] <= p[2]

\* C9: get_detour_outliers on a source of fewer than 3 points raises for
\* every probability of [0, 1]: no output is returned for it.
C9_DetourShortRaises ==
    (/\ Detoured
     /\ ProbInUnit(call.arg.prob)
     /\ \E i \in DOMAIN call.arg.batch_x : Len(call.arg.batch_x[i]) < 3) =>
        (call.res.status = "raise" /\ call.res.error = "ValueError")

\* A source of 2 points after one of 3 points.
C9_Witness ==
    /\ Detoured
    /\ Len(call.arg.batch_x) = 2
    /\ Len(call.arg.batch_x[1]) = 3
    /\ Len(call.arg.batch_x[2]) = 2
    /\ call.res.status = "raise"

\* The move of a point from cell a to cell b, in rows and columns.
Shift(a, b) == <<(b \div map_size[2]) - (a \div map_size[2]),
                 (b % map_size[2]) - (a % map_size[2])>>

\* C16: in a detour outlier every point of the span [start, end) is moved by
\* the same vector: output cell minus source cell, in rows and columns, is
\* the same at any two positions of the span, near the border of the grid
\* too.
C16_DetourUniformShift ==
    (Detoured /\ call.res.status = "return") =>
        \A i \in DOMAIN call.arg.batch_x :
            LET src == call.arg.batch_x[i]
                out == call.res.value[i]
                start == call.spans[i][1]
                end == call.spans[i][2]
            IN  \A j, k \in start .. (end - 1) :
                    Shift(src[j + 1], out[j + 1]) = Shift(src[k + 1], out[k + 1])

-----------------------------------------------------------------------------
(* partition_dataset                                                       *)

Swap(x, i, j) == [x EXCEPT ![i] = x[j], ![j] = x[i]]

RECURSIVE shuffle_loop(_, _, _)
\* The shuffle of np.random.permutation: for i = n-1 down to 1, x[i] is
\* swapped with x[j], j drawn from [0, i].  x is 1-based here.
shuffle_loop(x, i, g) ==
    IF i < 1 THEN {[value |-> x, rng |-> g]}
    ELSE UNION {shuffle_loop(Swap(x, i + 1, j.res.value + 1), i - 1, j.rng) :
                   j \in randint(0, i + 1, g)}

\* np.random.permutation(n): arange(n), shuffled.
permutation(n, g) == shuffle_loop([k \in 1 .. n |-> k - 1], n - 1, g)

\* partition_dataset without its np.random.seed(seed).
partition_dataset_unseeded(n, proportion, seed, g) ==
    LET train_num == Trunc(RMul(<<n, 1>>, proportion))
    IN  {[res |-> Return([train |-> PySlice(p.value, 0, train_num),
                          val |-> PySlice(p.value, train_num, Len(p.value))]),
          rng |-> p.rng] : p \in permutation(n, g)}

\* partition_dataset(proportion, seed) of a dataset of n items, in generator
\* state g: np.random.seed(seed), then the permutation is cut at
\* int(n * proportion).
partition_dataset(n, proportion, seed, g) ==
    LET train_num == Trunc(RMul(<<n, 1>>, proportion))
    IN  {[res |-> Return([train |-> PySlice(p.value, 0, train_num),
                          val |-> PySlice(p.value, train_num, Len(p.value))]),
          rng |-> p.rng] : p \in permutation(n, seed_rng(seed))}

-----------------------------------------------------------------------------
(* The taxi dataset in use: once constructed, partition_dataset and the    *)
(* outlier generators are called in any order on the same process-wide     *)
(* generator.                                                              *)

\* Trajectories of the dataset.
MaxData == 3

\* The source file: its first 1..MaxData lines are the dataset.
TaxiFile == << <<5, 5, 0, 5>>, <<0, 5, 5>>, <<5, 0, 5, 5>>, <<5, 5, 5>>, <<5, 0>> >>

\* Seeds handed to partition_dataset: 123 is its default, 0 and 10 are the
\* seeds generate_outliers sets.
SeedArgs == {0, 10, 123}

\* Train fractions: 0, 0.5, 0.9 (the default) and 1.
Proportions == {<<0, 10>>, <<5, 10>>, <<9, 10>>, <<10, 10>>}

InitTaxi ==
    /\ vocab = <<>>
    /\ map_size = OutlierGrid
    /\ data \in {SubSeq(TaxiFile, 1, n) : n \in 1 .. MaxData}
    /\ rng = Unseeded
    /\ call = NoCall
    /\ ref = NoCall
    /\ metadata = [i \in DOMAIN data |-> "non outlier"]
    /\ config = NoConfig
    /\ files = NoFiles

\* When a call is made, the call before it is kept for later comparison, or
\* the one kept stays.
KeepEarlier ==
    \/ ref' = IF call.op = "none" THEN NoCall
              ELSE [op |-> call.op, arg |-> call.arg, res |-> call.res]
    \/ ref' = ref

PartitionDataset ==
    \E proportion \in Proportions, seed \in SeedArgs :
        \E o \in partition_dataset(Len(data), proportion, seed, rng) :
            /\ call' = [op |-> "partition_dataset",
                        arg |-> [proportion |-> proportion, seed |-> seed, n |-> Len(data)],
                        before |-> rng,
                        res |-> o.res]
            /\ rng' = o.rng
            /\ KeepEarlier
            /\ UNCHANGED <<vocab, map_size, data, metadata, config, files>>

\* get_route_switch_outliers on one trajectory of the dataset, with the
\* level and the probability of PortoConfig.
TaxiRouteSwitch ==
    \E idx \in DOMAIN data :
        \E o \in get_route_switch_outliers(<<data[idx]>>, 1, <<3, 10>>, map_size, rng) :
            /\ call' = [op |-> "get_route_switch_outliers",
                        arg |-> [batch_x |-> <<data[idx]>>, level |-> 1, prob |-> <<3, 10>>],
                        before |-> rng,
                        res |-> o.res]
            /\ rng' = o.rng
            /\ KeepEarlier
            /\ UNCHANGED <<vocab, map_size, data, metadata, config, files>>

\* get_detour_outliers on one trajectory of the dataset.
TaxiDetour ==
    \E idx \in DOMAIN data :
        \E o \in get_detour_outliers(<<data[idx]>>, 1, <<3, 10>>, FALSE, map_size, rng) :
            /\ call' = [op |-> "get_detour_outliers",
                        arg |-> [batch_x |-> <<data[idx]>>, level |-> 1, prob |-> <<3, 10>>],
                        before |-> rng,
                        res |-> o.res]
            /\ rng' = o.rng
            /\ KeepEarlier
            /\ UNCHANGED <<vocab, map_size, data, metadata, config, files>>

NextTaxi == PartitionDataset \/ TaxiRouteSwitch \/ TaxiDetour

SpecTaxi == InitTaxi /\ [][NextTaxi]_vars

Range(q) == {q[i] : i \in DOMAIN q}

Partitioned == call.op = "partition_dataset"

\* C4: for every dataset length n, train fraction f of [0, 1] and seed,
\* partition_dataset returns train and validation index sets that are
\* disjoint, whose union is {0..n-1}, and that are the same on every call
\* with the same f, seed and n, whatever ran in between.
C4_Partition ==
    Partitioned =>
        /\ call.res.status = "return"
        /\ Range(call.res.value.train) \cap Range(call.res.value.val) = {}
        /\ Range(call.res.value.train) \cup Range(call.res.value.val)
              = 0 .. (call.arg.n - 1)
        /\ Len(call.res.value.train) + Len(call.res.value.val) = call.arg.n
        /\ (ref.op = "partition_dataset" /\ ref.arg = call.arg) => ref.res = call.res

\* A call with the arguments of an earlier one, made in another state of
\* np.random, left there by a generator call; both halves of the split are
\* non-empty.
C4_Witness ==
    /\ Partitioned
    /\ ref.op = "partition_dataset"
    /\ ref.arg = call.arg
    /\ call.before.seeded
    /\ call.before.seed = call.arg.seed
    /\ call.before.pos # (call.arg.n - 1) % RngPeriod
    /\ call.res.value.train # <<>>
    /\ call.res.value.val # <<>>

Generated == call.op \in {"get_route_switch_outliers", "get_detour_outliers"}

\* C10: two calls of an outlier generator with the same source list, level
\* and probability return the same trajectories, whatever drew from
\* np.random before each of them.
C10_GeneratorDeterminism ==
    (Generated /\ ref.op = call.op /\ ref.arg = call.arg) => ref.res = call.res

-----------------------------------------------------------------------------
(* Text: a str is a sequence of one-character strings.  The lines of the   *)
(* source and outlier files are list literals, written by str(list) and    *)
(* read by eval.                                                           *)

Digits == <<"0", "1", "2", "3", "4", "5", "6", "7", "8", "9">>

IsDigit(c) == \E d \in DOMAIN Digits : Digits[d] = c
DigitValue(c) == (CHOOSE d \in DOMAIN Digits : Digits[d] = c) - 1

RECURSIVE int_str(_)
\* str(n) of an int
int_str(n) ==
    IF n < 0 THEN <<"-">> \o int_str(-n)
    ELSE IF n < 10 THEN <<Digits[n + 1]>>
    ELSE int_str(n \div 10) \o <<Digits[(n % 10) + 1]>>

\* repr(s) of a str without quotes in it
str_repr(s) == <<"'">> \o s \o <<"'">>

RECURSIVE join_comma(_)
\* ", ".join(items)
join_comma(items) ==
    IF items = <<>> THEN <<>>
    ELSE IF Len(items) = 1 THEN items[1]
    ELSE items[1] \o <<",", " ">> \o join_comma(Tail(items))

\* str(l) of a list, from the repr of its elements
list_str(items) == <<"[">> \o join_comma(items) \o <<"]">>

\* f"{traj}" of a list of ints
traj_str(traj) == list_str([i \in DOMAIN traj |-> int_str(traj[i])])

RECURSIVE strip(_)
\* The text without the spaces around it.
strip(t) ==
    IF t = <<>> THEN t
    ELSE IF Head(t) = " " THEN strip(Tail(t))
    ELSE IF t[Len(t)] = " " THEN strip(SubSeq(t, 1, Len(t) - 1))
    ELSE t

RECURSIVE split_comma(_, _, _)
\* The texts between the commas of body.
split_comma(body, cur, acc) ==
    IF body = <<>> THEN Append(acc, cur)
    ELSE IF Head(body) = "," THEN split_comma(Tail(body), <<>>, Append(acc, cur))
    ELSE split_comma(Tail(body), Append(cur, Head(body)), acc)

\* An int literal: digits, without a leading 0 unless it is 0.
is_int_literal(t) ==
    /\ t # <<>>
    /\ \A i \in DOMAIN t : IsDigit(t[i])
    /\ (Len(t) > 1 => t[1] # "0")

\* A str literal: quotes around a text without quotes.
is_str_literal(t) ==
    /\ Len(t) >= 2
    /\ t[1] = "'" /\ t[Len(t)] = "'"
    /\ \A i \in 2 .. (Len(t) - 1) : t[i] # "'"

RECURSIVE int_value(_)
int_value(t) ==
    IF t = <<>> THEN 0
    ELSE int_value(SubSeq(t, 1, Len(t) - 1)) * 10 + DigitValue(t[Len(t)])

RECURSIVE join(_)
\* The characters of a text as one string.
join(t) == IF t = <<>> THEN "" ELSE Head(t) \o join(Tail(t))

\* eval(text) of a list literal: the texts of its elements, or SyntaxError.
eval_items(text) ==
    LET t == strip(text)
    IN  IF Len(t) < 2 \/ t[1] # "[" \/ t[Len(t)] # "]" THEN Raise("SyntaxError")
        ELSE LET body == strip(SubSeq(t, 2, Len(t) - 1))
                 parts == split_comma(body, <<>>, <<>>)
                 items == [i \in DOMAIN parts |-> strip(parts[i])]
             IN  IF body = <<>> THEN Return(<<>>)
                 ELSE IF \A i \in DOMAIN items :
                            is_int_literal(items[i]) \/ is_str_literal(items[i])
                 THEN Return(items)
                 ELSE Raise("SyntaxError")

\* eval(text) of a list literal: its elements as symbols, an int with its
\* decimal text and a str with its text.
eval_list(text) ==
    LET r == eval_items(text)
    IN  IF r.status = "raise" THEN r
        ELSE Return([i \in DOMAIN r.value |->
                        IF is_int_literal(r.value[i])
                        THEN IntSym(join(r.value[i]))
                        ELSE StrSym(join(SubSeq(r.value[i], 2, Len(r.value[i]) - 1)))])

\* eval(traj) of a line of a trajectory file: a list of ints.
eval_traj(text) ==
    LET r == eval_items(text)
    IN  IF r.status = "raise" THEN r
        ELSE IF \E i \in DOMAIN r.value : ~is_int_literal(r.value[i])
        THEN Raise("TypeError")
        ELSE Return([i \in DOMAIN r.value |-> int_value(r.value[i])])

-----------------------------------------------------------------------------
(* PortoDataset: construction (get_data, get_outliers), __getitem__ and    *)
(* generate_outliers.  A file is [exists, lines]; the outlier file of a    *)
(* kind is the one whose name carries the ratio, level and probability of  *)
(* the configuration.                                                      *)

File(lines) == [exists |-> TRUE, lines |-> lines]
NoFile == [exists |-> FALSE, lines |-> <<>>]

OutlierKinds == {"route_switch", "detour"}

RECURSIVE eval_lines(_, _)
\* [eval(traj) for traj in lines]
eval_lines(lines, acc) ==
    IF lines = <<>> THEN Return(acc)
    ELSE LET r == eval_traj(Head(lines))
         IN  IF r.status = "raise" THEN r
             ELSE eval_lines(Tail(lines), Append(acc, r.value))

\* outliers[key] = values, on a dict kept as the sequence of its items.
dict_set(d, key, values) ==
    IF \E i \in DOMAIN d : d[i].key = key
    THEN [i \in DOMAIN d |-> IF d[i].key = key THEN [key |-> key, values |-> values]
                             ELSE d[i]]
    ELSE Append(d, [key |-> key, values |-> values])

RECURSIVE get_outliers_loop(_, _, _)
\* for outlier_type in self.config.outliers_list: whatever goes wrong with
\* the file is raised again as Exception.
get_outliers_loop(outliers_list, fs, outliers) ==
    IF outliers_list = <<>> THEN Return(outliers)
    ELSE LET file == fs.outliers[Head(outliers_list)]
             r == IF file.exists THEN eval_lines(file.lines, <<>>)
                  ELSE Raise("FileNotFoundError")
         IN  IF r.status = "raise" THEN Raise("Exception")
             ELSE get_outliers_loop(Tail(outliers_list), fs,
                                    dict_set(outliers, Head(outliers_list), r.value))

\* PortoDataset.get_outliers()
get_outliers(fs, cfg) == get_outliers_loop(cfg.outliers_list, fs, <<>>)

outlier_label(key) ==
    IF key = "route_switch" THEN "route switch outlier"
    ELSE IF key = "detour" THEN "detour outlier"
    ELSE ""

\* The test of get_data without its limit: every trajectory fits.
fits_always(traj, block_size) == TRUE

\* len(traj) <= self.config.block_size - 2
fits(traj, block_size) == Len(traj) <= block_size - 2

RECURSIVE append_values(_, _, _, _)
\* for traj in values: a trajectory that fits is appended with the label,
\* one that does not is counted as skipped.
append_values(values, label, block_size, st) ==
    IF values = <<>> THEN st
    ELSE append_values(Tail(values), label, block_size,
            IF fits(Head(values), block_size)
            THEN [st EXCEPT !.trajectories = Append(@, Head(values)),
                            !.labels = Append(@, label),
                            !.outlier_counts = @ + 1]
            ELSE [st EXCEPT !.skipped_long_trajectories = @ + 1])

RECURSIVE append_outliers(_, _, _)
\* for key, values in self.get_outliers().items()
append_outliers(items, block_size, st) ==
    IF items = <<>> THEN st
    ELSE append_outliers(Tail(items), block_size,
            append_values(Head(items).values, outlier_label(Head(items).key),
                          block_size, st))

\* PortoDataset.get_data: the outcome, and the block size the configuration
\* is left with.
porto_get_data(fs, cfg) ==
    LET r == IF fs.source.exists THEN eval_lines(fs.source.lines, <<>>)
             ELSE Raise("FileNotFoundError")
    IN  IF r.status = "raise" THEN [res |-> r, block_size |-> cfg.block_size]
        ELSE IF r.value = <<>>
        THEN [res |-> Raise("ValueError"), block_size |-> cfg.block_size]
        ELSE LET block_size == MaxOf({Len(r.value[i]) : i \in DOMAIN r.value}) + 2
                 real == [trajectories |-> r.value,
                          labels |-> [i \in DOMAIN r.value |-> "non outlier"],
                          outlier_counts |-> 0,
                          skipped_long_trajectories |-> 0]
                 o == get_outliers(fs, cfg)
             IN  IF ~cfg.include_outliers
                 THEN [res |-> Return(real), block_size |-> block_size]
                 ELSE IF o.status = "raise"
                 THEN [res |-> o, block_size |-> block_size]
                 ELSE [res |-> Return(append_outliers(o.value, block_size, real)),
                       block_size |-> block_size]

\* PortoDataset.__getitem__(index)
porto_getitem(d, md, index) ==
    IF ~PyIndexOk(d, index) THEN Raise("IndexError")
    ELSE LET sample == PyIndex(d, index)
         IN  Return([sample |-> <<StrSym("SOT")>>
                                \o [i \in DOMAIN sample |-> IntSym(join(int_str(sample[i])))]
                                \o <<StrSym("EOT")>>,
                     metadata |-> PyIndex(md, index)])

RECURSIVE randint_size(_, _, _, _, _)
\* np.random.randint(low, high, size=size): size draws of randint.
randint_size(low, high, size, g, acc) ==
    IF low >= high THEN {[res |-> Raise("ValueError"), rng |-> g]}
    ELSE IF size <= 0 THEN {[res |-> Return(acc), rng |-> g]}
    ELSE UNION {randint_size(low, high, size - 1, d.rng, Append(acc, d.res.value)) :
                   d \in randint(low, high, g)}

\* [self.data[idx] for idx in ...]
pick_sources(d, idx) == [i \in DOMAIN idx |-> PyIndex(d, idx[i])]

Picked(route_switch, detour) == [route_switch |-> route_switch, detour |-> detour]

\* generate_outliers() on the data d: the outcomes [res, rng, picked], picked
\* being the indices drawn for each kind.
generate_outliers(d, cfg, ms) ==
    LET trajectory_count == Len(d)
        size == Trunc(RMul(<<trajectory_count, 1>>, cfg.outlier_ratio))
    IN  UNION {
          IF i1.res.status = "raise"
          THEN {[res |-> i1.res, rng |-> i1.rng, picked |-> Picked(<<>>, <<>>)]}
          ELSE UNION {
            IF rs.res.status = "raise"
            THEN {[res |-> rs.res, rng |-> rs.rng, picked |-> Picked(i1.res.value, <<>>)]}
            ELSE UNION {
              IF i2.res.status = "raise"
              THEN {[res |-> i2.res, rng |-> i2.rng, picked |-> Picked(i1.res.value, <<>>)]}
              ELSE {[res |-> IF dt.res.status = "raise" THEN dt.res
                             ELSE Return(<<[key |-> "route_switch", values |-> rs.res.value],
                                           [key |-> "detour", values |-> dt.res.value]>>),
                     rng |-> dt.rng,
                     picked |-> Picked(i1.res.value, i2.res.value)] :
                       dt \in get_detour_outliers(pick_sources(d, i2.res.value),
                                                  cfg.outlier_level, cfg.outlier_prob,
                                                  FALSE, ms, i2.rng)} :
              i2 \in randint_size(0, trajectory_count, size, seed_rng(10), <<>>)} :
            rs \in get_route_switch_outliers(pick_sources(d, i1.res.value),
                                             cfg.outlier_level, cfg.outlier_prob,
                                             ms, i1.rng)} :
          i1 \in randint_size(0, trajectory_count, size, seed_rng(0), <<>>)}

RECURSIVE save_outliers(_, _)
\* for key, values in outliers.items(): one line f"{traj}\n" per trajectory
save_outliers(fs, outliers) ==
    IF outliers = <<>> THEN fs
    ELSE LET values == Head(outliers).values
         IN  save_outliers(
                [fs EXCEPT !.outliers[Head(outliers).key] =
                    File([i \in DOMAIN values |-> traj_str(values[i])])],
                Tail(outliers))

-----------------------------------------------------------------------------
(* The taxi dataset from its files: a dataset is constructed, with or      *)
(* without the outliers of the files, read by __getitem__, and             *)
(* generate_outliers writes the outlier files the next construction loads. *)

\* generate_outliers is called on datasets of up to MaxCount trajectories.
MaxCount == 5

\* PortoConfig(): the defaults of the dataclass.
PortoConfig ==
    [block_size |-> 1186, outlier_level |-> 3, outlier_prob |-> <<3, 10>>,
     outlier_ratio |-> <<5, 100>>, outliers_list |-> <<"route_switch">>,
     include_outliers |-> TRUE]

\* outlier_ratio: 0.05 (the default) and 0.5.
PortoRatios == {<<5, 100>>, <<1, 2>>}

\* outliers_list: one kind, or both in either order.
OutliersLists ==
    {<<"route_switch">>, <<"detour">>, <<"route_switch", "detour">>,
     <<"detour", "route_switch">>}

\* The source file: the first 0..MaxData lines of the taxi file, or no file.
PortoSources ==
    {File([i \in 1 .. n |-> traj_str(TaxiFile[i])]) : n \in 0 .. MaxData} \cup {NoFile}

\* An outlier file left by an earlier run: a trajectory of 2 points and one
\* longer than every trajectory of the taxi file.
StoredOutliers == File(<<traj_str(<<5, 0>>), traj_str(<<5, 5, 5, 0, 5, 5>>)>>)

InitPorto ==
    /\ vocab = <<>>
    /\ map_size = OutlierGrid
    /\ data = <<>>
    /\ rng = Unseeded
    /\ call = NoCall
    /\ ref = NoCall
    /\ metadata = <<>>
    /\ \E ratio \in PortoRatios :
          config = [PortoConfig EXCEPT !.outlier_ratio = ratio, !.outlier_level = 1]
    /\ \E source \in PortoSources, stored \in {NoFile, StoredOutliers} :
          files = [source |-> source, outliers |-> [k \in OutlierKinds |-> stored]]

\* PortoDataset(config): the dataset replaces the one constructed before; when
\* construction raises there is no dataset.
PortoInit ==
    \E include_outliers \in BOOLEAN, outliers_list \in OutliersLists :
        \E r \in {porto_get_data(files, [config EXCEPT !.include_outliers = include_outliers,
                                                        !.outliers_list = outliers_list])} :
            /\ data' = IF r.res.status = "return" THEN r.res.value.trajectories ELSE <<>>
            /\ metadata' = IF r.res.status = "return" THEN r.res.value.labels ELSE <<>>
            /\ config' = [config EXCEPT !.include_outliers = include_outliers,
                                        !.outliers_list = outliers_list,
                                        !.block_size = r.block_size]
            /\ call' = [op |-> "PortoDataset.__init__",
                        arg |-> [include_outliers |-> include_outliers,
                                 outliers_list |-> outliers_list],
                        res |-> IF r.res.status = "return"
                                THEN Return([outlier_counts |-> r.res.value.outlier_counts,
                                             skipped_long_trajectories |->
                                                 r.res.value.skipped_long_trajectories])
                                ELSE r.res]
            /\ UNCHANGED <<vocab, map_size, rng, ref, files>>

\* dataset[index], index of -1 .. len(dataset)
PortoGetItem ==
    /\ data # <<>>
    /\ \E index \in -1 .. Len(data) :
          call' = [op |-> "PortoDataset.__getitem__",
                   arg |-> [index |-> index],
                   res |-> porto_getitem(data, metadata, index)]
    /\ UNCHANGED <<vocab, map_size, data, rng, ref, metadata, config, files>>

\* dataset.generate_outliers(): the outlier files are written when both
\* kinds were generated.
GenerateOutliers ==
    /\ data # <<>>
    /\ Len(data) <= MaxCount
    /\ \E o \in generate_outliers(data, config, map_size) :
          /\ call' = [op |-> "generate_outliers", arg |-> <<>>, res |-> o.res,
                      picked |-> o.picked]
          /\ rng' = o.rng
          /\ files' = IF o.res.status = "return" THEN save_outliers(files, o.res.value)
                      ELSE files
    /\ UNCHANGED <<vocab, map_size, data, ref, metadata, config>>

NextPorto == PortoInit \/ PortoGetItem \/ GenerateOutliers

SpecPorto == InitPorto /\ [][NextPorto]_vars

PortoConstructed == call.op = "PortoDataset.__init__" /\ call.res.status = "return"

\* The trajectories of the source file, in the order of its lines.
RealTrajectories == eval_lines(files.source.lines, <<>>).value

\* The trajectories of the outlier file of a kind.
LoadedOutliers(kind) == eval_lines(files.outliers[kind].lines, <<>>).value

\* Those of them with at most limit points.
AcceptedOutliers(kind, limit) == SelectSeq(LoadedOutliers(kind), LAMBDA t : Len(t) <= limit)

RECURSIVE AcceptedOfKinds(_, _)
\* The accepted trajectories of the kinds of a list, kind after kind.
AcceptedOfKinds(kinds, limit) ==
    IF kinds = <<>> THEN <<>>
    ELSE AcceptedOutliers(Head(kinds), limit) \o AcceptedOfKinds(Tail(kinds), limit)

RECURSIVE LoadedCount(_)
LoadedCount(kinds) ==
    IF kinds = <<>> THEN 0
    ELSE Len(LoadedOutliers(Head(kinds))) + LoadedCount(Tail(kinds))

\* C11: after construction of the taxi dataset with outliers included, the
\* block size is the largest real length + 2; the data are the real
\* trajectories in file order, labelled "non outlier", then exactly the
\* loaded synthetic trajectories of at most block size - 2 points, under an
\* outlier label; every __getitem__ sequence is SOT, the trajectory, EOT and
\* has at most block size elements; the longer synthetic trajectories are
\* at no index and are counted as skipped.
C11_PortoIndexSpace ==
    (PortoConstructed /\ config.include_outliers) =>
        LET real == RealTrajectories
            n == Len(real)
            limit == config.block_size - 2
            accepted == AcceptedOfKinds(config.outliers_list, limit)
        IN  /\ config.block_size = MaxOf({Len(real[i]) : i \in DOMAIN real}) + 2
            /\ data = real \o accepted
            /\ Len(metadata) = Len(data)
            /\ \A i \in DOMAIN data : (metadata[i] = "non outlier") <=> (i <= n)
            /\ call.res.value.outlier_counts = Len(accepted)
            /\ call.res.value.skipped_long_trajectories
                  = LoadedCount(config.outliers_list) - Len(accepted)
            /\ \A index \in 0 .. (Len(data) - 1) :
                  LET item == porto_getitem(data, metadata, index)
                  IN  /\ item.status = "return"
                      /\ Len(item.value.sample) = Len(data[index + 1]) + 2
                      /\ Len(item.value.sample) <= config.block_size
                      /\ item.value.metadata = metadata[index + 1]

\* A construction that appended a synthetic trajectory and skipped a longer
\* one.
C11_Witness ==
    /\ PortoConstructed /\ config.include_outliers
    /\ call.res.value.outlier_counts > 0
    /\ call.res.value.skipped_long_trajectories > 0
    /\ Len(data) > Len(RealTrajectories)

\* C18: every index generate_outliers draws for a source is the index of a
\* real trajectory (label "non outlier"), also on a dataset constructed with
\* outliers included.
C18_SourcesAreReal ==
    call.op = "generate_outliers" =>
        /\ \A i \in DOMAIN call.picked.route_switch :
              PyIndex(metadata, call.picked.route_switch[i]) = "non outlier"
        /\ \A i \in DOMAIN call.picked.detour :
              PyIndex(metadata, call.picked.detour[i]) = "non outlier"

-----------------------------------------------------------------------------
(* POLDataset: the check-in dataset.  A row of the source table carries    *)
(* the texts of its columns: user_id, date, dayofweek and the four         *)
(* sequence literals place, token, duration_bucket and distance_label.     *)

\* outlier_list = [546, 644, 347, 62, 551, 992, 554, 949, 900, 57]
outlier_list == {546, 644, 347, 62, 551, 992, 554, 949, 900, 57}

\* user_id.split("_")[-1]: the text after the last underscore.
last_part(text) ==
    LET us == {i \in DOMAIN text : text[i] = "_"}
    IN  IF us = {} THEN text ELSE SubSeq(text, MaxOf(us) + 1, Len(text))

\* A text astype(int) accepts: digits only.
is_int_text(t) == t # <<>> /\ \A i \in DOMAIN t : IsDigit(t[i])

\* data["user_id"].str.split("_").str[-1].astype(int)
user_id_int(user_id) == int_value(last_part(user_id))

\* The dates of the table are days of one month, written 2020-01-DD.
MonthText == <<"2", "0", "2", "0", "-", "0", "1", "-">>

is_date(text) ==
    /\ Len(text) = Len(MonthText) + 2
    /\ SubSeq(text, 1, Len(MonthText)) = MonthText
    /\ IsDigit(text[Len(text) - 1]) /\ IsDigit(text[Len(text)])

\* pd.to_datetime(date): the day, as the number of days since the month began.
to_datetime(text) == int_value(SubSeq(text, Len(MonthText) + 1, Len(text)))

\* The window test of get_data with >= for >.
in_window_inclusive(date_formated, max_date, outlier_days) ==
    date_formated >= max_date - outlier_days

\* data["date_formated"] > (data["date_formated"].max() - pd.DateOffset(outlier_days))
in_window(date_formated, max_date, outlier_days) ==
    date_formated > max_date - outlier_days

\* The rows of outliers: [user_id_int, date, outlier] of the rows in the
\* window whose user is in outlier_list.
outlier_rows(rows, outlier_days) ==
    LET max_date == MaxOf({to_datetime(rows[i].date) : i \in DOMAIN rows})
        picked == SelectSeq(rows, LAMBDA r :
                      /\ in_window(to_datetime(r.date), max_date, outlier_days)
                      /\ user_id_int(r.user_id) \in outlier_list)
    IN  [i \in DOMAIN picked |->
            [user_id_int |-> user_id_int(picked[i].user_id),
             date |-> picked[i].date,
             outlier |-> "outlier"]]

\* A row of the merged table: the columns of the source row, user_id_int
\* and the label.
merged_row(row, label) ==
    [user_id |-> row.user_id, date |-> row.date, dayofweek |-> row.dayofweek,
     place |-> row.place, token |-> row.token,
     duration_bucket |-> row.duration_bucket,
     distance_label |-> row.distance_label,
     user_id_int |-> user_id_int(row.user_id), outlier |-> label]

RECURSIVE merge_left(_, _, _)
\* pd.merge(data, outliers, how='left', on user_id_int and date), then
\* np.where(data.outlier.notnull(), "outlier", "non outlier"): a row
\* appears once for every row of outliers with its key, labelled "outlier",
\* and once, labelled "non outlier", when there is none.
merge_left(rows, outliers, acc) ==
    IF rows = <<>> THEN acc
    ELSE LET row == Head(rows)
             matches == SelectSeq(outliers, LAMBDA o :
                            /\ o.user_id_int = user_id_int(row.user_id)
                            /\ o.date = row.date)
         IN  merge_left(Tail(rows), outliers,
                IF matches = <<>> THEN Append(acc, merged_row(row, "non outlier"))
                ELSE acc \o [i \in DOMAIN matches |-> merged_row(row, "outlier")])

\* The frame with its index: the labels 0..n-1 a merge gives its rows.
with_index(rows) == [i \in DOMAIN rows |-> [index |-> i - 1, row |-> rows[i]]]

\* float('nan'): what max() of an empty column gives.
NaN == [nan |-> TRUE]

\* (data.token.str.len().max() * len(self.config.features)) + 3:
\* str.len() of a text is the number of its characters.
block_size_of(frame, features) ==
    IF frame = <<>> THEN NaN
    ELSE MaxOf({Len(frame[i].row.token) : i \in DOMAIN frame}) * Len(features) + 3

\* POLDataset.get_data: the outcome; value is [data, outliers, block_size].
pol_get_data(fs, cfg) ==
    IF ~fs.source.exists THEN Raise("FileNotFoundError")
    ELSE LET rows == fs.source.lines
         IN  IF \E i \in DOMAIN rows : ~is_date(rows[i].date) THEN Raise("ValueError")
             ELSE IF \E i \in DOMAIN rows : ~is_int_text(last_part(rows[i].user_id))
             THEN Raise("ValueError")
             ELSE LET outliers == outlier_rows(rows, cfg.outlier_days)
                      merged == with_index(merge_left(rows, outliers, <<>>))
                      kept == IF ~cfg.include_outliers
                              THEN SelectSeq(merged, LAMBDA r : r.row.outlier # "outlier")
                              ELSE merged
                  IN  Return([data |-> kept, outliers |-> outliers,
                              block_size |-> block_size_of(kept, cfg.features)])

\* "name" in self.config.features
has_feature(features, name) == \E i \in DOMAIN features : features[i] = name

\* The block of a visit with its features in the order of the policy.
visit_block_in_policy_order(place, token, duration_bucket, distance, features) ==
    [i \in DOMAIN features |->
        IF features[i] = "place" THEN place
        ELSE IF features[i] = "gps" THEN StrSym(Str(token))
        ELSE IF features[i] = "duration" THEN duration_bucket
        ELSE distance]

\* current_seq of one visit: place, str(token), duration_bucket and
\* distance, each when its feature is enabled.
visit_block(place, token, duration_bucket, distance, features) ==
    (IF has_feature(features, "place") THEN <<place>> ELSE <<>>)
    \o (IF has_feature(features, "gps") THEN <<StrSym(Str(token))>> ELSE <<>>)
    \o (IF has_feature(features, "duration") THEN <<duration_bucket>> ELSE <<>>)
    \o (IF has_feature(features, "distance") THEN <<distance>> ELSE <<>>)

RECURSIVE extend_visits(_, _, _, _, _, _)
\* for place, token, duration_bucket, distance in zip(...): zip stops at the
\* end of the shortest sequence.
extend_visits(places, tokens, duration_buckets, distances, features, acc) ==
    IF places = <<>> \/ tokens = <<>> \/ duration_buckets = <<>> \/ distances = <<>>
    THEN acc
    ELSE extend_visits(Tail(places), Tail(tokens), Tail(duration_buckets),
                       Tail(distances), features,
                       acc \o visit_block(Head(places), Head(tokens),
                                          Head(duration_buckets), Head(distances),
                                          features))

\* Once the five literals are evaluated.
feature_vector_of(user_id, dayofweek, places, tokens, durations, distances, features) ==
    IF dayofweek.status = "raise" THEN dayofweek
    ELSE IF dayofweek.value = <<>> THEN Raise("IndexError")
    ELSE IF places.status = "raise" THEN places
    ELSE IF tokens.status = "raise" THEN tokens
    ELSE IF durations.status = "raise" THEN durations
    ELSE IF distances.status = "raise" THEN distances
    ELSE Return(extend_visits(places.value, tokens.value, durations.value,
                              distances.value, features,
                              <<StrSym(join(user_id)), dayofweek.value[1]>>)
                \o <<StrSym("EOT")>>)

\* POLDataset.get_feature_vector(sample)
get_feature_vector(sample, features) ==
    feature_vector_of(sample.user_id, eval_list(sample.dayofweek),
                      eval_list(sample.place), eval_list(sample.token),
                      eval_list(sample.duration_bucket),
                      eval_list(sample.distance_label), features)

\* tokens and metadata of __getitem__, once the feature vector is there.
pol_item_of(sample, feature, d) ==
    IF feature.status = "raise" THEN feature
    ELSE IF encode(d, feature.value).status = "raise" THEN encode(d, feature.value)
    ELSE Return([metadata |-> <<sample.user_id, sample.date, sample.outlier>>,
                 tokens |-> encode(d, feature.value).value])

\* POLDataset.__getitem__(index): self.data.iloc[index] is the row at the
\* position index.
pol_getitem(frame, features, d, index) ==
    IF ~PyIndexOk(frame, index) THEN Raise("IndexError")
    ELSE pol_item_of(PyIndex(frame, index).row,
                     get_feature_vector(PyIndex(frame, index).row, features), d)

RECURSIVE samples_loop(_, _, _, _, _)
\* for i in indices: samples.append(self.__getitem__(i))
samples_loop(indices, frame, features, d, samples) ==
    IF indices = <<>> THEN Return(samples)
    ELSE LET item == pol_getitem(frame, features, d, Head(indices))
         IN  IF item.status = "raise" THEN item
             ELSE samples_loop(Tail(indices), frame, features, d,
                               Append(samples, item.value))

\* f"user_{user_id}"
user_text(user_id) == <<"u", "s", "e", "r", "_">> \o int_str(user_id)

\* POLDataset.get_samples_for_user(user_id): indices are the index labels of
\* the rows of the user.
get_samples_for_user(frame, features, d, user_id) ==
    LET rows == SelectSeq(frame, LAMBDA r : r.row.user_id = user_text(user_id))
    IN  samples_loop([i \in DOMAIN rows |-> rows[i].index], frame, features, d, <<>>)

-----------------------------------------------------------------------------
(* Rows of a check-in table.                                               *)

\* DD of a date
day_text(d) == IF d < 10 THEN <<"0">> \o int_str(d) ELSE int_str(d)

\* The text of a list literal of strs / of ints.
str_list_text(items) == list_str([i \in DOMAIN items |-> str_repr(<<items[i]>>)])
int_list_text(items) == list_str([i \in DOMAIN items |-> int_str(items[i])])

\* A row of the table from the values of its columns.
CheckinRow(user, day, dayofweek, places, tokens, duration_buckets, distances) ==
    [user_id |-> user_text(user),
     date |-> MonthText \o day_text(day),
     dayofweek |-> str_list_text(dayofweek),
     place |-> str_list_text(places),
     token |-> int_list_text(tokens),
     duration_bucket |-> str_list_text(duration_buckets),
     distance_label |-> str_list_text(distances)]

\* POLConfig.features: its default, in its order.
DefaultFeatures == <<"gps", "distance", "duration", "place">>

-----------------------------------------------------------------------------
(* get_feature_vector on its own: a record of 0..MaxVisits visits and a    *)
(* feature policy.                                                         *)

\* Visits of a record.
MaxVisits == 2

\* The feature policies: the sublists of the default.
FeaturePolicies ==
    {SelectSeq(DefaultFeatures, LAMBDA f : f \in S) :
        S \in SUBSET {DefaultFeatures[i] : i \in DOMAIN DefaultFeatures}}

\* Records of v visits, the four sequences of the same length v.
FeatureSamples ==
    UNION {{CheckinRow(7, 20, <<"d">>, places, tokens, [i \in 1 .. v |-> "s"],
                       [i \in 1 .. v |-> "n"]) :
               places \in [1 .. v -> {"W", "R"}], tokens \in [1 .. v -> {8, 9}]} :
           v \in 0 .. MaxVisits}

InitFeature ==
    /\ vocab = <<>>
    /\ map_size = <<1, 1>>
    /\ data = <<>>
    /\ rng = Unseeded
    /\ call \in [op : {"get_feature_vector"}, arg : FeatureSamples, res : {Pending}]
    /\ ref = NoCall
    /\ metadata = <<>>
    /\ \E features \in FeaturePolicies : config = [features |-> features]
    /\ files = NoFiles

GetFeatureVector ==
    /\ call.op = "get_feature_vector"
    /\ call.res.status = "pending"
    /\ call' = [call EXCEPT !.res = get_feature_vector(call.arg, config.features)]
    /\ UNCHANGED <<vocab, map_size, data, rng, ref, metadata, config, files>>

NextFeature == GetFeatureVector

SpecFeature == InitFeature /\ [][NextFeature]_vars

\* The canonical order of the features in a block.
CanonicalFeatures == <<"place", "gps", "duration", "distance">>

\* The symbol of a feature at visit i of a record.
FeatureSymbol(sample, feature, i) ==
    IF feature = "place" THEN eval_list(sample.place).value[i]
    ELSE IF feature = "gps" THEN StrSym(eval_list(sample.token).value[i].v)
    ELSE IF feature = "duration" THEN eval_list(sample.duration_bucket).value[i]
    ELSE eval_list(sample.distance_label).value[i]

GotFeatureVector == call.op = "get_feature_vector" /\ call.res.status # "pending"

\* C15: for every record of v >= 0 visits and every feature policy,
\* get_feature_vector returns user_id, day_of_week, then v blocks each
\* holding exactly the enabled features in the order place, grid-cell token,
\* duration, distance, then EOT; for v = 0 it returns the three elements
\* user_id, day_of_week, EOT.
C15_FeatureVector ==
    GotFeatureVector =>
        LET sample == call.arg
            v == Len(eval_list(sample.token).value)
            enabled == SelectSeq(CanonicalFeatures,
                                 LAMBDA f : has_feature(config.features, f))
            k == Len(enabled)
            out == call.res.value
        IN  /\ call.res.status = "return"
            /\ Len(out) = 2 + v * k + 1
            /\ out[1] = StrSym(join(sample.user_id))
            /\ out[2] = eval_list(sample.dayofweek).value[1]
            /\ out[Len(out)] = StrSym("EOT")
            /\ \A i \in 1 .. v : \A j \in 1 .. k :
                  out[2 + (i - 1) * k + j] = FeatureSymbol(sample, enabled[j], i)
            /\ v = 0 => out = <<StrSym(join(sample.user_id)),
                                eval_list(sample.dayofweek).value[1], StrSym("EOT")>>

\* A record of two different visits under the policy gps, place.
C15_Witness ==
    /\ GotFeatureVector
    /\ call.res.status = "return"
    /\ config.features = <<"gps", "place">>
    /\ Len(eval_list(call.arg.token).value) = 2
    /\ eval_list(call.arg.place).value[1] # eval_list(call.arg.place).value[2]

-----------------------------------------------------------------------------
(* The check-in dataset from its table: the dataset is constructed once,   *)
(* then read by __getitem__ and get_samples_for_user.                      *)

\* Rows of a table.
MaxRows == 3

\* POLConfig(): the defaults of the dataclass.
POLConfig ==
    [features |-> DefaultFeatures, block_size |-> 64, include_outliers |-> FALSE,
     outlier_days |-> 14]

\* The rows a table is made of: user 57 is in outlier_list and user 7 is
\* not; the days are 20, 19 and 6 = 20 - 14.  The last row has two places
\* and one token.
CheckinRows ==
    {CheckinRow(57, 20, <<"d", "d">>, <<"W", "R">>, <<8, 9>>, <<"s", "s">>, <<"n", "n">>),
     CheckinRow(7, 20, <<"d">>, <<"W">>, <<8>>, <<"s">>, <<"n">>),
     CheckinRow(57, 6, <<"e">>, <<"R">>, <<9>>, <<"s">>, <<"n">>),
     CheckinRow(7, 19, <<"e", "e">>, <<"W", "R">>, <<8>>, <<"s", "s">>, <<"n", "n">>)}

\* The tables: 1..MaxRows different rows in any order (a table has one row
\* for a user and a day), or no file.
CheckinFiles ==
    {File(rows) : rows \in {t \in SeqsUpTo(CheckinRows, MaxRows) :
                               /\ t # <<>>
                               /\ \A i, j \in DOMAIN t : t[i] = t[j] => i = j}}
    \cup {NoFile}

\* The vocabulary file of the features: every symbol of the rows.
CheckinKeys == <<"PAD", "EOT", "user_57", "user_7", "d", "e", "W", "R", "8", "9", "s", "n">>
CheckinVocab == [i \in DOMAIN CheckinKeys |-> [k |-> CheckinKeys[i], id |-> i - 1]]

\* The users get_samples_for_user is asked for.
CheckinUsers == {7, 57}

InitCheckin ==
    /\ vocab = CheckinVocab
    /\ map_size = <<1, 1>>
    /\ data = <<>>
    /\ rng = Unseeded
    /\ call = NoCall
    /\ ref = NoCall
    /\ metadata = <<>>
    /\ \E include_outliers \in BOOLEAN, features \in {DefaultFeatures, <<"gps", "place">>},
          outlier_days \in {14, 1} :
          config = [POLConfig EXCEPT !.include_outliers = include_outliers,
                                     !.features = features,
                                     !.outlier_days = outlier_days]
    /\ files \in [source : CheckinFiles]

\* POLDataset(config); ref keeps the outcome of the construction.
PolInit ==
    /\ ref.op = "none"
    /\ \E r \in {pol_get_data(files, config)} :
          /\ data' = IF r.status = "return" THEN r.value.data ELSE <<>>
          /\ metadata' = IF r.status = "return" THEN r.value.outliers ELSE <<>>
          /\ config' = IF r.status = "return"
                       THEN [config EXCEPT !.block_size = r.value.block_size]
                       ELSE config
          /\ call' = [op |-> "POLDataset.__init__", arg |-> <<>>,
                      res |-> IF r.status = "return" THEN Return(<<>>) ELSE r]
          /\ ref' = call'
    /\ UNCHANGED <<vocab, map_size, rng, files>>

PolConstructed == ref.op = "POLDataset.__init__" /\ ref.res.status = "return"

\* dataset[index], index of -1 .. len(dataset)
PolGetItem ==
    /\ PolConstructed
    /\ \E index \in -1 .. Len(data) :
          call' = [op |-> "POLDataset.__getitem__",
                   arg |-> [index |-> index],
                   res |-> pol_getitem(data, config.features, vocab, index)]
    /\ UNCHANGED <<vocab, map_size, data, rng, ref, metadata, config, files>>

\* dataset.get_samples_for_user(user_id)
GetSamplesForUser ==
    /\ PolConstructed
    /\ \E user_id \in CheckinUsers :
          call' = [op |-> "get_samples_for_user",
                   arg |-> [user_id |-> user_id],
                   res |-> get_samples_for_user(data, config.features, vocab, user_id)]
    /\ UNCHANGED <<vocab, map_size, data, rng, ref, metadata, config, files>>

NextCheckin == PolInit \/ PolGetItem \/ GetSamplesForUser

SpecCheckin == InitCheckin /\ [][NextCheckin]_vars

\* The last day of the table.
LastDay == MaxOf({to_datetime(files.source.lines[i].date) : i \in DOMAIN files.source.lines})

\* The row is of one of the last outlier_days days of the table and of a
\* user of outlier_list.
IsOutlierRow(row) ==
    /\ LastDay - to_datetime(row.date) < config.outlier_days
    /\ user_id_int(row.user_id) \in outlier_list

\* The columns of the source table in a row of the frame.
SourceColumns(row) ==
    [user_id |-> row.user_id, date |-> row.date, dayofweek |-> row.dayofweek,
     place |-> row.place, token |-> row.token,
     duration_bucket |-> row.duration_bucket, distance_label |-> row.distance_label]

\* C12: a row of the check-in dataset is labelled "outlier" exactly when its
\* date is within the last outlier_days days of the table and its user is in
\* the anomalous-user set; the rows are those of the table, without the
\* outlier rows when include_outliers is false, and then no index of
\* [0, len(dataset)) returns an item whose label is "outlier".
C12_OutlierLabels ==
    PolConstructed =>
        /\ \A i \in DOMAIN data :
              (data[i].row.outlier = "outlier") <=> IsOutlierRow(data[i].row)
        /\ [i \in DOMAIN data |-> SourceColumns(data[i].row)]
              = IF config.include_outliers THEN files.source.lines
                ELSE SelectSeq(files.source.lines, LAMBDA r : ~IsOutlierRow(r))
        /\ ~config.include_outliers =>
              \A index \in 0 .. (Len(data) - 1) :
                  LET item == pol_getitem(data, config.features, vocab, index)
                  IN  /\ item.status = "return"
                      /\ item.value.metadata[3] # "outlier"

\* A table with a row of user 57 on the first day before the window, kept,
\* and one in the window, dropped.
C12_Witness ==
    /\ PolConstructed
    /\ ~config.include_outliers
    /\ Len(data) < Len(files.source.lines)
    /\ \E i \in DOMAIN data :
          /\ user_id_int(data[i].row.user_id) \in outlier_list
          /\ LastDay - to_datetime(data[i].row.date) = config.outlier_days

\* The visits of a row: the length of its token sequence.
Visits(row) == Len(eval_list(row.token).value)

\* The four sequences of the row have one length.
WellFormed(row) ==
    /\ Len(eval_list(row.place).value) = Visits(row)
    /\ Len(eval_list(row.duration_bucket).value) = Visits(row)
    /\ Len(eval_list(row.distance_label).value) = Visits(row)

\* C13: after the check-in dataset is loaded, the block size is (the largest
\* number of visits of a remaining row) * (number of enabled features) + 3,
\* the length of the longest feature vector of the loaded rows.
C13_BlockSize ==
    (/\ PolConstructed
     /\ data # <<>>
     /\ \A i \in DOMAIN data : WellFormed(data[i].row)) =>
        /\ config.block_size
              = MaxOf({Visits(data[i].row) : i \in DOMAIN data}) * Len(config.features) + 3
        /\ config.block_size
              = MaxOf({Len(get_feature_vector(data[i].row, config.features).value) :
                          i \in DOMAIN data})

\* C14: with a record whose four sequences do not have the same length in
\* the table, construction raises, and __getitem__ never returns an item of
\* such a record.
C14_UnequalLengthsFatal ==
    /\ (/\ ref.op = "POLDataset.__init__"
        /\ \E i \in DOMAIN files.source.lines : ~WellFormed(files.source.lines[i]))
          => ref.res.status = "raise"
    /\ (call.op = "POLDataset.__getitem__" /\ call.res.status = "return")
          => WellFormed(PyIndex(data, call.arg.index).row)

\* The positions of the rows of a user, from 0.
RowsOfUser(user_id) ==
    SelectSeq([k \in DOMAIN data |-> k - 1],
              LAMBDA k : data[k + 1].row.user_id = user_text(user_id))

\* C19: get_samples_for_user(u) returns exactly the items of the rows whose
\* user is u, one for each row in the order of the dataset, each with the
\* user id user_u, also when the outlier rows were dropped.
C19_SamplesOfUser ==
    call.op = "get_samples_for_user" =>
        /\ call.res.status = "return"
        /\ call.res.value
              = [i \in DOMAIN RowsOfUser(call.arg.user_id) |->
                    pol_getitem(data, config.features, vocab,
                                RowsOfUser(call.arg.user_id)[i]).value]
        /\ \A i \in DOMAIN call.res.value :
              call.res.value[i].metadata[1] = user_text(call.arg.user_id)

=============================================================================
